---- MODULE Spec2Model ----
(***************************************************************************)
(* A model of osmio's object model (src/src/lib.rs) and of its owned       *)
(* entity family (src/src/obj_types/string_types.rs): TimestampFormat and  *)
(* its comparisons, OSMObjectType and its parsers, the StringNode /        *)
(* StringWay / StringRelation structs behind the StringOSMObj wrapper, and *)
(* the OSMWriter::from_iter driver.                                        *)
(***************************************************************************)
EXTENDS Integers, Sequences, FiniteSets, TLC

VARIABLES
    lhs,        \* TimestampFormat: the receiver of a comparison
    rhs,        \* TimestampFormat: the argument of a comparison
    ts_call,    \* the last TimestampFormat call and what it returned
    obj,        \* a StringOSMObj
    call,       \* the last call on obj: its name, arguments and return value
    tag_log,    \* ghost: the set_tag / unset_tag calls made on obj, in order
    type_call,  \* the last OSMObjectType::from_str call: input and result
    char_call,  \* the last OSMObjectType::try_from(char) call: input and result
    pc,         \* OSMWriter::from_iter: position in its body
    iter,       \* from_iter: the items the iterator has still to yield
    items,      \* ghost: everything the iterator yields, in order
    writer,     \* from_iter: the local `writer` (Self), once constructed
    trace,      \* ghost: the calls from_iter has made on the writer, in order
    returned    \* from_iter: the value it returned (None until it returns)

vars == <<lhs, rhs, ts_call, obj, call, tag_log, type_call, char_call,
          pc, iter, items, writer, trace, returned>>

(***************************************************************************)
(* Option<T>: None is the empty tuple, Some(v) the one-element tuple.      *)
(***************************************************************************)
None == <<>>

Some(v) == <<v>>

is_some(o) == o # None

unwrap(o) == o[1]

(***************************************************************************)
(* Bounds of the model.                                                    *)
(***************************************************************************)
MaxMinute == 2

----------------------------------------------------------------------------
(***************************************************************************)
(* TimestampFormat (lib.rs 44-109).                                        *)
(*                                                                         *)
(* An ISO string is modelled by the two parts of an RFC 3339 text that     *)
(* decide both its bytes and its instant: the wall-clock reading (in       *)
(* seconds, a fixed-width "YYYY-MM-DDTHH:MM:SS" field) and the zone suffix *)
(* that follows it.  Two strings are the same String iff both parts agree. *)
(***************************************************************************)
Zones == {"Z", "+00:00", "+00:01"}

\* Seconds east of UTC that a zone suffix denotes.
ZoneSeconds(z) ==
    CASE z = "Z" -> 0
      [] z = "+00:00" -> 0
      [] z = "+00:01" -> 60

\* Byte order of the suffixes: '+' (0x2B) sorts before 'Z' (0x5A), and
\* "+00:00" before "+00:01".
ZoneRank(z) ==
    CASE z = "+00:00" -> 0
      [] z = "+00:01" -> 1
      [] z = "Z" -> 2

Clocks == {60 * k : k \in 0..MaxMinute}

iso_to_epoch(s) == s.clock - ZoneSeconds(s.zone)

\* The strings of the model: every clock/zone text denoting an instant from
\* 1970-01-01T00:00:00Z on.
IsoStrings ==
    {s \in [clock : Clocks, zone : Zones] : iso_to_epoch(s) >= 0}

EpochNumbers == {60 * k : k \in 0..MaxMinute}

ISOString(s) == [form |-> "ISOString", s |-> s]

EpochNunber(t) == [form |-> "EpochNunber", t |-> t]

TimestampFormat ==
    {ISOString(s) : s \in IsoStrings} \cup {EpochNunber(t) : t \in EpochNumbers}

to_epoch_number(x) ==
    IF x.form = "ISOString" THEN iso_to_epoch(x.s) ELSE x.t

\* Ordering of two integers (i64::partial_cmp is total).
IntCmp(a, b) ==
    IF a < b THEN "Less" ELSE IF a = b THEN "Equal" ELSE "Greater"

\* String::partial_cmp: lexicographic byte order.  The clock field has a
\* fixed width, so it is compared first and the suffix decides a tie.
StringCmp(a, b) ==
    IF a.clock # b.clock THEN IntCmp(a.clock, b.clock)
    ELSE IntCmp(ZoneRank(a.zone), ZoneRank(b.zone))

\* String::eq: the same bytes.
StringEq(a, b) == a.clock = b.clock /\ a.zone = b.zone

partial_cmp(a, b) ==
    IF a.form = "ISOString" /\ b.form = "ISOString"
        THEN Some(StringCmp(a.s, b.s))
    ELSE IF a.form = "EpochNunber" /\ b.form = "EpochNunber"
        THEN Some(IntCmp(a.t, b.t))
    ELSE Some(IntCmp(to_epoch_number(a), to_epoch_number(b)))

eq(a, b) ==
    IF a.form = "ISOString" /\ b.form = "ISOString"
        THEN StringEq(a.s, b.s)
    ELSE IF a.form = "EpochNunber" /\ b.form = "EpochNunber"
        THEN a.t = b.t
    ELSE to_epoch_number(a) = to_epoch_number(b)

NotTs ==
    <<obj, call, tag_log, type_call, char_call,
      pc, iter, items, writer, trace, returned>>

\* lhs == rhs
TsEq ==
    /\ ts_call' = [op |-> "eq", ret |-> eq(lhs, rhs)]
    /\ UNCHANGED <<lhs, rhs, NotTs>>

\* lhs.partial_cmp(&rhs)
TsPartialCmp ==
    /\ ts_call' = [op |-> "partial_cmp", ret |-> partial_cmp(lhs, rhs)]
    /\ UNCHANGED <<lhs, rhs, NotTs>>

\* lhs.to_epoch_number()
TsToEpochNumber ==
    /\ ts_call' = [op |-> "to_epoch_number", ret |-> to_epoch_number(lhs)]
    /\ UNCHANGED <<lhs, rhs, NotTs>>

\* Ord::cmp as #[derive(Ord)] writes it for an enum: the variants in the
\* order of their declaration (ISOString before EpochNunber), and two values
\* of one variant by their payload (String::cmp, i64::cmp).
cmp(a, b) ==
    IF a.form = "ISOString" /\ b.form = "ISOString"
        THEN StringCmp(a.s, b.s)
    ELSE IF a.form = "EpochNunber" /\ b.form = "EpochNunber"
        THEN IntCmp(a.t, b.t)
    ELSE IF a.form = "ISOString" THEN "Less" ELSE "Greater"

\* lhs.cmp(&rhs)
TsCmp ==
    /\ ts_call' = [op |-> "cmp", ret |-> cmp(lhs, rhs)]
    /\ UNCHANGED <<lhs, rhs, NotTs>>

TsNext == TsEq \/ TsPartialCmp \/ TsToEpochNumber \/ TsCmp

(***************************************************************************)
(* The conversions between the two forms (lib.rs 50-64).                   *)
(*                                                                         *)
(* EpochNunber holds an i64, and to_iso_string casts it with `as i32`.     *)
(* To keep both widths exact an i64 is written here by its two 32-bit      *)
(* words: the value is hi * 2^32 + lo, where lo is a signed 32-bit word.   *)
(* Every i64 has exactly one such writing, `v as i32` is its lo, and an    *)
(* i32 x widened by `as i64` is the value with hi = 0 and lo = x.          *)
(***************************************************************************)
MaxHi == 4

I64(hi, lo) == [hi |-> hi, lo |-> lo]

\* `*t as i32`: keeps the low 32 bits.
as_i32(v) == v.lo

\* `... as i64` of a 32-bit number.
as_i64(x) == I64(0, x)

\* Epoch values of the full 64-bit range: the epochs of the model, and the
\* values that differ from them by multiples of 2^32.
WideEpochs == {I64(h, l) : h \in (-MaxHi)..MaxHi, l \in EpochNumbers}

\* utils::epoch_to_iso formats a 32-bit epoch as the RFC 3339 text of that
\* instant in UTC.
epoch_to_iso(e) == [clock |-> e, zone |-> "Z"]

to_iso_string(x) ==
    IF x.form = "ISOString" THEN x.s ELSE epoch_to_iso(as_i32(x.t))

\* rhs = ISOString(lhs.to_iso_string())
ConvToIsoString ==
    /\ rhs' = ISOString(to_iso_string(lhs))
    /\ ts_call' = [op |-> "to_iso_string", ret |-> to_iso_string(lhs)]
    /\ UNCHANGED <<lhs, NotTs>>

\* rhs.to_epoch_number(), rhs being the string the conversion produced;
\* the result is an i64.
ConvToEpochNumber ==
    /\ ts_call.op = "to_iso_string"
    /\ ts_call' = [op |-> "to_epoch_number",
                   ret |-> as_i64(to_epoch_number(rhs))]
    /\ UNCHANGED <<lhs, rhs, NotTs>>

ConvNext == ConvToIsoString \/ ConvToEpochNumber

----------------------------------------------------------------------------
(***************************************************************************)
(* The value domains of the entity model.                                  *)
(***************************************************************************)
MaxId == 2

MaxU32 == 1

MaxNodes == 2

MaxMembers == 2

MaxOps == 3

ObjIds == 1..MaxId

U32 == 0..MaxU32

OptU32 == {None} \cup {Some(v) : v \in U32}

Users == {"", "alice"}

OptUser == {None} \cup {Some(u) : u \in Users}

OptTimestamp ==
    {None, Some(EpochNunber(0)), Some(ISOString([clock |-> 0, zone |-> "Z"]))}

\* (Lat, Lon) pairs, as abstract coordinate values.
OptLatLon == {None, Some(<<0, 0>>), Some(<<1, 2>>)}

Keys == {"name", "highway"}

Values == {"a", "b"}

OSMObjectType == {"Node", "Way", "Relation"}

\* All sequences over S of length at most n.
SeqsUpTo(S, n) == UNION {[1..k -> S] : k \in 0..n}

NodeLists == SeqsUpTo(ObjIds, MaxNodes)

\* (kind, id, role) triples: the same reference under two roles, the empty
\* role, every kind.
Members ==
    {<<"Node", 1, "">>, <<"Node", 1, "outer">>,
     <<"Way", 2, "outer">>, <<"Relation", 1, "">>}

MemberLists == SeqsUpTo(Members, MaxMembers)

(***************************************************************************)
(* HashMap<String, String>: the set of its (key, value) entries.  insert   *)
(* replaces the entry of an equal key, remove drops it, get finds it.      *)
(***************************************************************************)
HashMap_new == {}

HashMap_insert(m, k, v) == {e \in m : e[1] # k} \cup {<<k, v>>}

HashMap_remove(m, k) == {e \in m : e[1] # k}

HashMap_get(m, k) ==
    IF \E e \in m : e[1] = k
        THEN Some((CHOOSE e \in m : e[1] = k)[2])
        ELSE None

HashMap_iter(m) == m

(***************************************************************************)
(* Vec<T>: a sequence.  get is 0-indexed.                                  *)
(***************************************************************************)
Vec_truncate(v, len) == IF len < Len(v) THEN SubSeq(v, 1, len) ELSE v

Vec_extend(v, more) == v \o more

Vec_get(v, idx) == IF idx < Len(v) THEN Some(v[idx + 1]) ELSE None

(***************************************************************************)
(* The structs (string_types.rs 23-102), as their builders leave them:     *)
(* an id, and every other field at its #[builder(default)].                *)
(***************************************************************************)
StringNode(id) ==
    [_id |-> id, _version |-> None, _deleted |-> FALSE,
     _changeset_id |-> None, _timestamp |-> None, _uid |-> None,
     _user |-> None, _tags |-> HashMap_new, _lat_lon |-> None]

StringWay(id) ==
    [_id |-> id, _version |-> None, _deleted |-> FALSE,
     _changeset_id |-> None, _timestamp |-> None, _uid |-> None,
     _user |-> None, _tags |-> HashMap_new, _nodes |-> <<>>]

StringRelation(id) ==
    [_id |-> id, _version |-> None, _deleted |-> FALSE,
     _changeset_id |-> None, _timestamp |-> None, _uid |-> None,
     _user |-> None, _tags |-> HashMap_new, _members |-> <<>>]

\* enum StringOSMObj and its From<StringNode / StringWay / StringRelation>.
StringOSMObj_Node(n) == [variant |-> "Node", x |-> n]

StringOSMObj_Way(w) == [variant |-> "Way", x |-> w]

StringOSMObj_Relation(r) == [variant |-> "Relation", x |-> r]

(***************************************************************************)
(* impl OSMObjBase for StringNode (string_types.rs 280-343).          *)
(***************************************************************************)
StringNode_id(self) == self._id

StringNode_version(self) == self._version

StringNode_deleted(self) == self._deleted

StringNode_changeset_id(self) == self._changeset_id

StringNode_timestamp(self) == self._timestamp

StringNode_uid(self) == self._uid

StringNode_user(self) ==
    IF self._user = None THEN None ELSE Some(unwrap(self._user))

StringNode_set_id(self, val) == [self EXCEPT !._id = val]

StringNode_set_version(self, val) == [self EXCEPT !._version = val]

StringNode_set_deleted(self, val) == [self EXCEPT !._deleted = val]

StringNode_set_changeset_id(self, val) == [self EXCEPT !._changeset_id = val]

StringNode_set_timestamp(self, val) == [self EXCEPT !._timestamp = val]

StringNode_set_uid(self, val) == [self EXCEPT !._uid = val]

StringNode_set_user(self, val) ==
    [self EXCEPT !._user = IF val = None THEN None ELSE Some(unwrap(val))]

StringNode_tags(self) == HashMap_iter(self._tags)

StringNode_tag(self, key) == HashMap_get(self._tags, key)

\* A faulty StringNode::set_tag, to test C7 against: a key already set keeps
\* its value.
StringNode_set_tag_keeps_first(self, key, value) ==
    IF is_some(HashMap_get(self._tags, key)) THEN self
    ELSE [self EXCEPT !._tags = HashMap_insert(self._tags, key, value)]

StringNode_set_tag(self, key, value) ==
    [self EXCEPT !._tags = HashMap_insert(self._tags, key, value)]

StringNode_unset_tag(self, key) ==
    [self EXCEPT !._tags = HashMap_remove(self._tags, key)]

(***************************************************************************)
(* impl OSMObjBase for StringWay (string_types.rs 355-418).          *)
(***************************************************************************)
StringWay_id(self) == self._id

StringWay_version(self) == self._version

StringWay_deleted(self) == self._deleted

StringWay_changeset_id(self) == self._changeset_id

StringWay_timestamp(self) == self._timestamp

StringWay_uid(self) == self._uid

StringWay_user(self) ==
    IF self._user = None THEN None ELSE Some(unwrap(self._user))

StringWay_set_id(self, val) == [self EXCEPT !._id = val]

StringWay_set_version(self, val) == [self EXCEPT !._version = val]

StringWay_set_deleted(self, val) == [self EXCEPT !._deleted = val]

StringWay_set_changeset_id(self, val) == [self EXCEPT !._changeset_id = val]

StringWay_set_timestamp(self, val) == [self EXCEPT !._timestamp = val]

StringWay_set_uid(self, val) == [self EXCEPT !._uid = val]

StringWay_set_user(self, val) ==
    [self EXCEPT !._user = IF val = None THEN None ELSE Some(unwrap(val))]

StringWay_tags(self) == HashMap_iter(self._tags)

StringWay_tag(self, key) == HashMap_get(self._tags, key)

StringWay_set_tag(self, key, value) ==
    [self EXCEPT !._tags = HashMap_insert(self._tags, key, value)]

StringWay_unset_tag(self, key) ==
    [self EXCEPT !._tags = HashMap_remove(self._tags, key)]

(***************************************************************************)
(* impl OSMObjBase for StringRelation (string_types.rs 436-499).          *)
(***************************************************************************)
StringRelation_id(self) == self._id

StringRelation_version(self) == self._version

StringRelation_deleted(self) == self._deleted

StringRelation_changeset_id(self) == self._changeset_id

StringRelation_timestamp(self) == self._timestamp

StringRelation_uid(self) == self._uid

StringRelation_user(self) ==
    IF self._user = None THEN None ELSE Some(unwrap(self._user))

StringRelation_set_id(self, val) == [self EXCEPT !._id = val]

StringRelation_set_version(self, val) == [self EXCEPT !._version = val]

StringRelation_set_deleted(self, val) == [self EXCEPT !._deleted = val]

StringRelation_set_changeset_id(self, val) == [self EXCEPT !._changeset_id = val]

StringRelation_set_timestamp(self, val) == [self EXCEPT !._timestamp = val]

StringRelation_set_uid(self, val) == [self EXCEPT !._uid = val]

StringRelation_set_user(self, val) ==
    [self EXCEPT !._user = IF val = None THEN None ELSE Some(unwrap(val))]

StringRelation_tags(self) == HashMap_iter(self._tags)

StringRelation_tag(self, key) == HashMap_get(self._tags, key)

StringRelation_set_tag(self, key, value) ==
    [self EXCEPT !._tags = HashMap_insert(self._tags, key, value)]

StringRelation_unset_tag(self, key) ==
    [self EXCEPT !._tags = HashMap_remove(self._tags, key)]

(***************************************************************************)
(* impl Node for StringNode (string_types.rs 345-353).                     *)
(***************************************************************************)
StringNode_lat_lon(self) == self._lat_lon

StringNode_set_lat_lon(self, loc) == [self EXCEPT !._lat_lon = loc]

(***************************************************************************)
(* impl Way for StringWay (string_types.rs 420-434).                       *)
(***************************************************************************)
StringWay_num_nodes(self) == Len(self._nodes)

StringWay_nodes(self) == self._nodes

StringWay_node(self, idx) == Vec_get(self._nodes, idx)

\* A faulty StringWay::set_nodes, to test C8 against: it extends without
\* truncating.
StringWay_set_nodes_appends(self, nodes) ==
    [self EXCEPT !._nodes = Vec_extend(self._nodes, nodes)]

StringWay_set_nodes(self, nodes) ==
    LET truncated == Vec_truncate(self._nodes, 0)
    IN  [self EXCEPT !._nodes = Vec_extend(truncated, nodes)]

(***************************************************************************)
(* impl Relation for StringRelation (string_types.rs 501-516).             *)
(***************************************************************************)
StringRelation_members(self) ==
    [i \in 1..Len(self._members) |->
        <<self._members[i][1], self._members[i][2], self._members[i][3]>>]

\* A faulty StringRelation::set_members, to test C9 against: it extends
\* without truncating.
StringRelation_set_members_appends(self, members) ==
    [self EXCEPT !._members = Vec_extend(self._members, members)]

StringRelation_set_members(self, members) ==
    LET truncated == Vec_truncate(self._members, 0)
        owned == [i \in 1..Len(members) |->
                    <<members[i][1], members[i][2], members[i][3]>>]
    IN  [self EXCEPT !._members = Vec_extend(truncated, owned)]

(***************************************************************************)
(* impl OSMObjBase for StringOSMObj (string_types.rs 120-192): every       *)
(* method matches on the variant and calls the inner struct's method       *)
(* (the macros func_call_inner_get / func_call_inner_set, lines 3-21).     *)
(***************************************************************************)

StringOSMObj_id(self) ==
    CASE self.variant = "Node" -> StringNode_id(self.x)
      [] self.variant = "Way" -> StringWay_id(self.x)
      [] self.variant = "Relation" -> StringRelation_id(self.x)

StringOSMObj_version(self) ==
    CASE self.variant = "Node" -> StringNode_version(self.x)
      [] self.variant = "Way" -> StringWay_version(self.x)
      [] self.variant = "Relation" -> StringRelation_version(self.x)

StringOSMObj_deleted(self) ==
    CASE self.variant = "Node" -> StringNode_deleted(self.x)
      [] self.variant = "Way" -> StringWay_deleted(self.x)
      [] self.variant = "Relation" -> StringRelation_deleted(self.x)

StringOSMObj_changeset_id(self) ==
    CASE self.variant = "Node" -> StringNode_changeset_id(self.x)
      [] self.variant = "Way" -> StringWay_changeset_id(self.x)
      [] self.variant = "Relation" -> StringRelation_changeset_id(self.x)

StringOSMObj_timestamp(self) ==
    CASE self.variant = "Node" -> StringNode_timestamp(self.x)
      [] self.variant = "Way" -> StringWay_timestamp(self.x)
      [] self.variant = "Relation" -> StringRelation_timestamp(self.x)

StringOSMObj_uid(self) ==
    CASE self.variant = "Node" -> StringNode_uid(self.x)
      [] self.variant = "Way" -> StringWay_uid(self.x)
      [] self.variant = "Relation" -> StringRelation_uid(self.x)

StringOSMObj_user(self) ==
    CASE self.variant = "Node" -> StringNode_user(self.x)
      [] self.variant = "Way" -> StringWay_user(self.x)
      [] self.variant = "Relation" -> StringRelation_user(self.x)

StringOSMObj_tags(self) ==
    CASE self.variant = "Node" -> StringNode_tags(self.x)
      [] self.variant = "Way" -> StringWay_tags(self.x)
      [] self.variant = "Relation" -> StringRelation_tags(self.x)

StringOSMObj_set_id(self, val) ==
    CASE self.variant = "Node" -> StringOSMObj_Node(StringNode_set_id(self.x, val))
      [] self.variant = "Way" -> StringOSMObj_Way(StringWay_set_id(self.x, val))
      [] self.variant = "Relation" -> StringOSMObj_Relation(StringRelation_set_id(self.x, val))

StringOSMObj_set_version(self, val) ==
    CASE self.variant = "Node" -> StringOSMObj_Node(StringNode_set_version(self.x, val))
      [] self.variant = "Way" -> StringOSMObj_Way(StringWay_set_version(self.x, val))
      [] self.variant = "Relation" -> StringOSMObj_Relation(StringRelation_set_version(self.x, val))

StringOSMObj_set_deleted(self, val) ==
    CASE self.variant = "Node" -> StringOSMObj_Node(StringNode_set_deleted(self.x, val))
      [] self.variant = "Way" -> StringOSMObj_Way(StringWay_set_deleted(self.x, val))
      [] self.variant = "Relation" -> StringOSMObj_Relation(StringRelation_set_deleted(self.x, val))

StringOSMObj_set_changeset_id(self, val) ==
    CASE self.variant = "Node" -> StringOSMObj_Node(StringNode_set_changeset_id(self.x, val))
      [] self.variant = "Way" -> StringOSMObj_Way(StringWay_set_changeset_id(self.x, val))
      [] self.variant = "Relation" -> StringOSMObj_Relation(StringRelation_set_changeset_id(self.x, val))

StringOSMObj_set_timestamp(self, val) ==
    CASE self.variant = "Node" -> StringOSMObj_Node(StringNode_set_timestamp(self.x, val))
      [] self.variant = "Way" -> StringOSMObj_Way(StringWay_set_timestamp(self.x, val))
      [] self.variant = "Relation" -> StringOSMObj_Relation(StringRelation_set_timestamp(self.x, val))

\* A faulty set_uid, to test C14 against: the wrapper forwards to the
\* struct's set_version.
StringOSMObj_set_uid_as_version(self, val) ==
    CASE self.variant = "Node" -> StringOSMObj_Node(StringNode_set_version(self.x, val))
      [] self.variant = "Way" -> StringOSMObj_Way(StringWay_set_version(self.x, val))
      [] self.variant = "Relation" -> StringOSMObj_Relation(StringRelation_set_version(self.x, val))

StringOSMObj_set_uid(self, val) ==
    CASE self.variant = "Node" -> StringOSMObj_Node(StringNode_set_uid(self.x, val))
      [] self.variant = "Way" -> StringOSMObj_Way(StringWay_set_uid(self.x, val))
      [] self.variant = "Relation" -> StringOSMObj_Relation(StringRelation_set_uid(self.x, val))

StringOSMObj_set_user(self, val) ==
    CASE self.variant = "Node" -> StringOSMObj_Node(StringNode_set_user(self.x, val))
      [] self.variant = "Way" -> StringOSMObj_Way(StringWay_set_user(self.x, val))
      [] self.variant = "Relation" -> StringOSMObj_Relation(StringRelation_set_user(self.x, val))

StringOSMObj_tag(self, key) ==
    CASE self.variant = "Node" -> StringNode_tag(self.x, key)
      [] self.variant = "Way" -> StringWay_tag(self.x, key)
      [] self.variant = "Relation" -> StringRelation_tag(self.x, key)

StringOSMObj_set_tag(self, key, value) ==
    CASE self.variant = "Node" -> StringOSMObj_Node(StringNode_set_tag(self.x, key, value))
      [] self.variant = "Way" -> StringOSMObj_Way(StringWay_set_tag(self.x, key, value))
      [] self.variant = "Relation" -> StringOSMObj_Relation(StringRelation_set_tag(self.x, key, value))

StringOSMObj_unset_tag(self, key) ==
    CASE self.variant = "Node" -> StringOSMObj_Node(StringNode_unset_tag(self.x, key))
      [] self.variant = "Way" -> StringOSMObj_Way(StringWay_unset_tag(self.x, key))
      [] self.variant = "Relation" -> StringOSMObj_Relation(StringRelation_unset_tag(self.x, key))


(***************************************************************************)
(* impl OSMObj for StringOSMObj (string_types.rs 194-278) and the trait's  *)
(* provided is_node / is_way / is_relation (lib.rs 257-265).               *)
(***************************************************************************)
object_type(self) ==
    CASE self.variant = "Node" -> "Node"
      [] self.variant = "Way" -> "Way"
      [] self.variant = "Relation" -> "Relation"

into_node(self) == IF self.variant = "Node" THEN Some(self.x) ELSE None

\* A faulty into_way, to test C3 against: it matches any variant but Node.
into_way_not_node(self) == IF self.variant # "Node" THEN Some(self.x) ELSE None

into_way(self) == IF self.variant = "Way" THEN Some(self.x) ELSE None

into_relation(self) == IF self.variant = "Relation" THEN Some(self.x) ELSE None

as_node(self) == IF self.variant = "Node" THEN Some(self.x) ELSE None

as_way(self) == IF self.variant = "Way" THEN Some(self.x) ELSE None

as_relation(self) == IF self.variant = "Relation" THEN Some(self.x) ELSE None

as_node_mut(self) == IF self.variant = "Node" THEN Some(self.x) ELSE None

as_way_mut(self) == IF self.variant = "Way" THEN Some(self.x) ELSE None

as_relation_mut(self) ==
    IF self.variant = "Relation" THEN Some(self.x) ELSE None

is_node(self) == object_type(self) = "Node"

is_way(self) == object_type(self) = "Way"

is_relation(self) == object_type(self) = "Relation"

(***************************************************************************)
(* trait OSMObjBase (lib.rs 112-154).  A provided method calls the         *)
(* required methods of Self; the impl is chosen by the type of self, which *)
(* the model reads off the value's fields.                                 *)
(***************************************************************************)
TypeOf(self) ==
    IF "variant" \in DOMAIN self THEN "StringOSMObj"
    ELSE IF "_lat_lon" \in DOMAIN self THEN "StringNode"
    ELSE IF "_nodes" \in DOMAIN self THEN "StringWay"
    ELSE "StringRelation"

OSMObjBase_set_uid(self, val) ==
    CASE TypeOf(self) = "StringOSMObj" -> StringOSMObj_set_uid(self, val)
      [] TypeOf(self) = "StringNode" -> StringNode_set_uid(self, val)
      [] TypeOf(self) = "StringWay" -> StringWay_set_uid(self, val)
      [] TypeOf(self) = "StringRelation" -> StringRelation_set_uid(self, val)

OSMObjBase_set_user(self, val) ==
    CASE TypeOf(self) = "StringOSMObj" -> StringOSMObj_set_user(self, val)
      [] TypeOf(self) = "StringNode" -> StringNode_set_user(self, val)
      [] TypeOf(self) = "StringWay" -> StringWay_set_user(self, val)
      [] TypeOf(self) = "StringRelation" -> StringRelation_set_user(self, val)

OSMObjBase_set_changeset_id(self, val) ==
    CASE TypeOf(self) = "StringOSMObj" ->
            StringOSMObj_set_changeset_id(self, val)
      [] TypeOf(self) = "StringNode" -> StringNode_set_changeset_id(self, val)
      [] TypeOf(self) = "StringWay" -> StringWay_set_changeset_id(self, val)
      [] TypeOf(self) = "StringRelation" ->
            StringRelation_set_changeset_id(self, val)

OSMObjBase_uid(self) ==
    CASE TypeOf(self) = "StringOSMObj" -> StringOSMObj_uid(self)
      [] TypeOf(self) = "StringNode" -> StringNode_uid(self)
      [] TypeOf(self) = "StringWay" -> StringWay_uid(self)
      [] TypeOf(self) = "StringRelation" -> StringRelation_uid(self)

OSMObjBase_user(self) ==
    CASE TypeOf(self) = "StringOSMObj" -> StringOSMObj_user(self)
      [] TypeOf(self) = "StringNode" -> StringNode_user(self)
      [] TypeOf(self) = "StringWay" -> StringWay_user(self)
      [] TypeOf(self) = "StringRelation" -> StringRelation_user(self)

OSMObjBase_changeset_id(self) ==
    CASE TypeOf(self) = "StringOSMObj" -> StringOSMObj_changeset_id(self)
      [] TypeOf(self) = "StringNode" -> StringNode_changeset_id(self)
      [] TypeOf(self) = "StringWay" -> StringWay_changeset_id(self)
      [] TypeOf(self) = "StringRelation" -> StringRelation_changeset_id(self)

OSMObjBase_tags(self) ==
    CASE TypeOf(self) = "StringOSMObj" -> StringOSMObj_tags(self)
      [] TypeOf(self) = "StringNode" -> StringNode_tags(self)
      [] TypeOf(self) = "StringWay" -> StringWay_tags(self)
      [] TypeOf(self) = "StringRelation" -> StringRelation_tags(self)

OSMObjBase_tag(self, key) ==
    CASE TypeOf(self) = "StringOSMObj" -> StringOSMObj_tag(self, key)
      [] TypeOf(self) = "StringNode" -> StringNode_tag(self, key)
      [] TypeOf(self) = "StringWay" -> StringWay_tag(self, key)
      [] TypeOf(self) = "StringRelation" -> StringRelation_tag(self, key)

has_tag(self, key) == is_some(OSMObjBase_tag(self, key))

\* tags().count(): the number of items the iterator yields.
num_tags(self) == Cardinality(OSMObjBase_tags(self))

untagged(self) == num_tags(self) = 0

tagged(self) == ~untagged(self)

\* A faulty strip_metadata, to test C6 against: the changeset id is left
\* alone.
strip_metadata_keeps_changeset(self) ==
    LET s1 == OSMObjBase_set_uid(self, None)
    IN  OSMObjBase_set_user(s1, None)

strip_metadata(self) ==
    LET s1 == OSMObjBase_set_uid(self, None)
        s2 == OSMObjBase_set_user(s1, None)
    IN  OSMObjBase_set_changeset_id(s2, None)

\* The wrapper holding `inner`, a struct of the kind self holds: what self is
\* after a write through the reference as_node_mut / as_way_mut /
\* as_relation_mut hands out.
WithInner(self, inner) == [self EXCEPT !.x = inner]

\* The struct inside the wrapper, whichever variant it is.
Inner(self) == self.x

----------------------------------------------------------------------------
(***************************************************************************)
(* The calls a holder of a StringOSMObj makes on it.                       *)
(***************************************************************************)
NotObj ==
    <<lhs, rhs, ts_call, type_call, char_call,
      pc, iter, items, writer, trace, returned>>

\* The kind-specific payload of the entity a wrapper holds: the position of
\* a node, the node list of a way, the member list of a relation.
Payload(self) ==
    CASE object_type(self) = "Node" -> StringNode_lat_lon(unwrap(as_node(self)))
      [] object_type(self) = "Way" -> StringWay_nodes(unwrap(as_way(self)))
      [] object_type(self) = "Relation" ->
            StringRelation_members(unwrap(as_relation(self)))

\* self after a caller has set its version, deleted flag and timestamp.
WithFields(self) ==
    StringOSMObj_set_timestamp(
        StringOSMObj_set_deleted(
            StringOSMObj_set_version(self, Some(MaxU32)), TRUE),
        Some(EpochNunber(0)))

\* self after a caller has set two tags.
WithTags(self) ==
    StringOSMObj_set_tag(StringOSMObj_set_tag(self, "name", "a"),
                         "highway", "b")

\* self after a caller has set its payload through the mutable downcast.
WithPayload(self) ==
    CASE object_type(self) = "Node" ->
            WithInner(self, StringNode_set_lat_lon(Inner(self), Some(<<1, 2>>)))
      [] object_type(self) = "Way" ->
            WithInner(self, StringWay_set_nodes(Inner(self), <<2, 1>>))
      [] object_type(self) = "Relation" ->
            WithInner(self,
                StringRelation_set_members(Inner(self),
                    <<<<"Way", 2, "outer">>, <<"Node", 1, "">>>>))

\* A built entity with or without each of the three.
Filled(self, f, t, p) ==
    LET s1 == IF f THEN WithFields(self) ELSE self
        s2 == IF t THEN WithTags(s1) ELSE s1
    IN  IF p THEN WithPayload(s2) ELSE s2

\* A built entity of any kind, wrapped (From<StringNode> and the like).
NewObjs ==
    {StringOSMObj_Node(StringNode(i)) : i \in ObjIds}
        \cup {StringOSMObj_Way(StringWay(i)) : i \in ObjIds}
        \cup {StringOSMObj_Relation(StringRelation(i)) : i \in ObjIds}

SetId ==
    \E v \in ObjIds :
        /\ obj' = StringOSMObj_set_id(obj, v)
        /\ call' = [op |-> "set_id"]
        /\ UNCHANGED <<tag_log, NotObj>>

SetVersion ==
    \E v \in OptU32 :
        /\ obj' = StringOSMObj_set_version(obj, v)
        /\ call' = [op |-> "set_version"]
        /\ UNCHANGED <<tag_log, NotObj>>

SetDeleted ==
    \E v \in BOOLEAN :
        /\ obj' = StringOSMObj_set_deleted(obj, v)
        /\ call' = [op |-> "set_deleted"]
        /\ UNCHANGED <<tag_log, NotObj>>

SetChangesetId ==
    \E v \in OptU32 :
        /\ obj' = StringOSMObj_set_changeset_id(obj, v)
        /\ call' = [op |-> "set_changeset_id"]
        /\ UNCHANGED <<tag_log, NotObj>>

SetTimestamp ==
    \E v \in OptTimestamp :
        /\ obj' = StringOSMObj_set_timestamp(obj, v)
        /\ call' = [op |-> "set_timestamp"]
        /\ UNCHANGED <<tag_log, NotObj>>

SetUid ==
    \E v \in OptU32 :
        /\ obj' = StringOSMObj_set_uid(obj, v)
        /\ call' = [op |-> "set_uid"]
        /\ UNCHANGED <<tag_log, NotObj>>

SetUser ==
    \E v \in OptUser :
        /\ obj' = StringOSMObj_set_user(obj, v)
        /\ call' = [op |-> "set_user"]
        /\ UNCHANGED <<tag_log, NotObj>>

\* obj.strip_metadata(): the provided method, on the wrapper.
StripMetadata ==
    /\ obj' = strip_metadata(obj)
    /\ call' = [op |-> "strip_metadata", on |-> "StringOSMObj",
                had |-> <<StringOSMObj_uid(obj), StringOSMObj_user(obj),
                          StringOSMObj_changeset_id(obj)>>,
                pre |-> obj]
    /\ UNCHANGED <<tag_log, NotObj>>

\* The provided method on the struct itself (StringNode, StringWay or
\* StringRelation), reached through the wrapper's mutable downcast.
StripMetadataInner ==
    /\ obj' = WithInner(obj, strip_metadata(Inner(obj)))
    /\ call' = [op |-> "strip_metadata", on |-> TypeOf(Inner(obj)),
                had |-> <<StringOSMObj_uid(obj), StringOSMObj_user(obj),
                          StringOSMObj_changeset_id(obj)>>,
                pre |-> obj]
    /\ UNCHANGED <<tag_log, NotObj>>

IntoNode ==
    /\ call' = [op |-> "into_node", ret |-> into_node(obj)]
    /\ UNCHANGED <<obj, tag_log, NotObj>>

IntoWay ==
    /\ call' = [op |-> "into_way", ret |-> into_way(obj)]
    /\ UNCHANGED <<obj, tag_log, NotObj>>

IntoRelation ==
    /\ call' = [op |-> "into_relation", ret |-> into_relation(obj)]
    /\ UNCHANGED <<obj, tag_log, NotObj>>

AsNode ==
    /\ call' = [op |-> "as_node", ret |-> as_node(obj)]
    /\ UNCHANGED <<obj, tag_log, NotObj>>

AsWay ==
    /\ call' = [op |-> "as_way", ret |-> as_way(obj)]
    /\ UNCHANGED <<obj, tag_log, NotObj>>

AsRelation ==
    /\ call' = [op |-> "as_relation", ret |-> as_relation(obj)]
    /\ UNCHANGED <<obj, tag_log, NotObj>>

AsNodeMut ==
    /\ call' = [op |-> "as_node_mut", ret |-> as_node_mut(obj)]
    /\ UNCHANGED <<obj, tag_log, NotObj>>

AsWayMut ==
    /\ call' = [op |-> "as_way_mut", ret |-> as_way_mut(obj)]
    /\ UNCHANGED <<obj, tag_log, NotObj>>

AsRelationMut ==
    /\ call' = [op |-> "as_relation_mut", ret |-> as_relation_mut(obj)]
    /\ UNCHANGED <<obj, tag_log, NotObj>>

\* obj.set_tag(k, v)
SetTag ==
    \E k \in Keys, v \in Values :
        /\ Len(tag_log) < MaxOps
        /\ obj' = StringOSMObj_set_tag(obj, k, v)
        /\ call' = [op |-> "set_tag"]
        /\ tag_log' = Append(tag_log, <<"set_tag", k, v>>)
        /\ UNCHANGED NotObj

\* obj.unset_tag(k)
UnsetTag ==
    \E k \in Keys :
        /\ Len(tag_log) < MaxOps
        /\ obj' = StringOSMObj_unset_tag(obj, k)
        /\ call' = [op |-> "unset_tag"]
        /\ tag_log' = Append(tag_log, <<"unset_tag", k>>)
        /\ UNCHANGED NotObj

\* Whether some element of the list `old` is no element of the list `new`.
HasStale(old, new) ==
    \E i \in 1..Len(old) : \A j \in 1..Len(new) : new[j] # old[i]

\* obj.as_node_mut().map(|n| n.set_lat_lon(loc))
SetLatLon ==
    \E loc \in OptLatLon :
        /\ is_some(as_node_mut(obj))
        /\ obj' = WithInner(obj,
                    StringNode_set_lat_lon(unwrap(as_node_mut(obj)), loc))
        /\ call' = [op |-> "set_lat_lon", arg |-> loc]
        /\ UNCHANGED <<tag_log, NotObj>>

\* obj.as_way_mut().map(|w| w.set_nodes(L))
SetNodes ==
    \E L \in NodeLists :
        /\ is_some(as_way_mut(obj))
        /\ obj' = WithInner(obj,
                    StringWay_set_nodes(unwrap(as_way_mut(obj)), L))
        /\ call' = [op |-> "set_nodes", arg |-> L,
                    prev_len |-> Len(unwrap(as_way_mut(obj))._nodes),
                    stale |-> HasStale(unwrap(as_way_mut(obj))._nodes, L)]
        /\ UNCHANGED <<tag_log, NotObj>>

\* obj.as_relation_mut().map(|r| r.set_members(M))
SetMembers ==
    \E M \in MemberLists :
        /\ is_some(as_relation_mut(obj))
        /\ obj' = WithInner(obj,
                    StringRelation_set_members(unwrap(as_relation_mut(obj)), M))
        /\ call' = [op |-> "set_members", arg |-> M,
                    prev_len |-> Len(unwrap(as_relation_mut(obj))._members),
                    stale |-> HasStale(unwrap(as_relation_mut(obj))._members, M)]
        /\ UNCHANGED <<tag_log, NotObj>>

ObjNext ==
    \/ SetChangesetId \/ SetUid \/ SetUser
    \/ StripMetadata \/ StripMetadataInner
    \/ IntoNode \/ IntoWay \/ IntoRelation
    \/ AsNode \/ AsWay \/ AsRelation
    \/ AsNodeMut \/ AsWayMut \/ AsRelationMut

FieldsNext ==
    \/ SetId \/ SetVersion \/ SetDeleted \/ SetTimestamp
    \/ StripMetadata \/ StripMetadataInner

StripNext ==
    \/ SetChangesetId \/ SetUid \/ SetUser
    \/ StripMetadata \/ StripMetadataInner

TagsNext == SetTag \/ UnsetTag

PayloadNext == SetLatLon \/ SetNodes \/ SetMembers


----------------------------------------------------------------------------
(***************************************************************************)
(* OSMObjectType: Debug, Display, TryFrom<char>, FromStr (lib.rs 185-236). *)
(* A char is modelled as the string of that one character.                 *)
(***************************************************************************)
Ok(v) == [ok |-> TRUE, v |-> v]

Err(e) == [ok |-> FALSE, err |-> e]

Debug_fmt(t) ==
    CASE t = "Node" -> "n"
      [] t = "Way" -> "w"
      [] t = "Relation" -> "r"

Display_fmt(t) ==
    CASE t = "Node" -> "node"
      [] t = "Way" -> "way"
      [] t = "Relation" -> "relation"

try_from(c) ==
    CASE c = "n" -> Ok("Node")
      [] c = "w" -> Ok("Way")
      [] c = "r" -> Ok("Relation")
      [] OTHER -> Err(<<"Cannot convert", c, "to OSMObjectType">>)

\* A faulty from_str, to test C10 against: the single-letter codes match in
\* either case.
from_str_any_case(s) ==
    CASE s \in {"n", "N", "node"} -> Ok("Node")
      [] s \in {"w", "W", "way"} -> Ok("Way")
      [] s \in {"r", "R", "relation", "rel"} -> Ok("Relation")
      [] OTHER -> Err(<<"Cannot convert", s, "to OSMObjectType">>)

from_str(s) ==
    CASE s \in {"n", "node"} -> Ok("Node")
      [] s \in {"w", "way"} -> Ok("Way")
      [] s \in {"r", "relation", "rel"} -> Ok("Relation")
      [] OTHER -> Err(<<"Cannot convert", s, "to OSMObjectType">>)

\* The chars and strings handed to the parsers: what Debug and Display
\* print, and texts near them.
Chars ==
    {Debug_fmt(t) : t \in OSMObjectType}
        \cup {"N", "W", "R", "e", "o", "x", "0", " "}

Strings ==
    {Debug_fmt(t) : t \in OSMObjectType}
        \cup {Display_fmt(t) : t \in OSMObjectType}
        \cup {"", "N", "W", "R", "Node", "Way", "Relation", "NODE",
              "no", "nod", "nodes", "wa", "ways", "re", "rel", "rels",
              "rela", "relations", " n", "n ", "nw", "x", "point", "line"}

NotType ==
    <<lhs, rhs, ts_call, obj, call, tag_log,
      pc, iter, items, writer, trace, returned>>

\* OSMObjectType::try_from(c)
TryFromChar ==
    \E c \in Chars :
        /\ char_call' = [op |-> "try_from", arg |-> c, ret |-> try_from(c)]
        /\ UNCHANGED <<type_call, NotType>>

\* s.parse::<OSMObjectType>()
FromStr ==
    \E s \in Strings :
        /\ type_call' = [op |-> "from_str", arg |-> s, ret |-> from_str(s)]
        /\ UNCHANGED <<char_call, NotType>>

TypeNext == TryFromChar \/ FromStr

----------------------------------------------------------------------------
(***************************************************************************)
(* trait OSMWriter (lib.rs 372-416).  new, close, is_open and write_obj    *)
(* are required methods: from_iter is checked against every outcome their  *)
(* signatures allow (each Result is Ok or Err) and the behaviour their doc *)
(* comments state.  The writer is the record of what was done to it.       *)
(***************************************************************************)
MaxItems == 2

Results == {"Ok", "Err"}

\* Self::new(writer)
OSMWriter_new == [id |-> 1, open |-> TRUE, written |-> <<>>, closes |-> 0]

\* writer.write_obj(&o) returning res
OSMWriter_write_obj(w, o, res) ==
    IF res = "Ok" THEN [w EXCEPT !.written = Append(@, o)] ELSE w

\* writer.close() returning res: after it is_open returns false.
OSMWriter_close(w, res) ==
    [w EXCEPT !.closes = @ + 1,
              !.open = IF res = "Ok" THEN FALSE ELSE @]

is_open(w) == w.open

\* Result::unwrap: the value of an Ok, a panic on an Err.
unwrap_panics(res) == res = "Err"

NotWriter == <<lhs, rhs, ts_call, obj, call, tag_log, type_call, char_call>>

\* let mut writer = Self::new(writer);
FromIterNew ==
    /\ pc = "new"
    /\ writer' = Some(OSMWriter_new)
    /\ trace' = Append(trace, <<"new">>)
    /\ pc' = "loop"
    /\ UNCHANGED <<iter, items, returned, NotWriter>>

\* for obj in iter { writer.write_obj(&obj).unwrap(); }: one iteration.
FromIterWrite ==
    /\ pc = "loop"
    /\ iter # <<>>
    /\ \E res \in Results :
        /\ writer' = Some(OSMWriter_write_obj(unwrap(writer), Head(iter), res))
        /\ trace' = Append(trace, <<"write_obj", Head(iter), res>>)
        /\ pc' = IF unwrap_panics(res) THEN "panicked" ELSE "loop"
    /\ iter' = Tail(iter)
    /\ UNCHANGED <<items, returned, NotWriter>>

\* The iterator is exhausted: writer.close().unwrap();
\* A faulty close step of from_iter, to test C5 against: the loop is left
\* one item early.
FromIterClose_early ==
    /\ pc = "loop"
    /\ Len(iter) <= 1
    /\ \E res \in Results :
        /\ writer' = Some(OSMWriter_close(unwrap(writer), res))
        /\ trace' = Append(trace, <<"close", res>>)
        /\ pc' = IF unwrap_panics(res) THEN "panicked" ELSE "return"
    /\ UNCHANGED <<iter, items, returned, NotWriter>>

FromIterClose ==
    /\ pc = "loop"
    /\ iter = <<>>
    /\ \E res \in Results :
        /\ writer' = Some(OSMWriter_close(unwrap(writer), res))
        /\ trace' = Append(trace, <<"close", res>>)
        /\ pc' = IF unwrap_panics(res) THEN "panicked" ELSE "return"
    /\ UNCHANGED <<iter, items, returned, NotWriter>>

\* writer
FromIterReturn ==
    /\ pc = "return"
    /\ returned' = writer
    /\ pc' = "done"
    /\ UNCHANGED <<iter, items, writer, trace, NotWriter>>

WriterNext == FromIterNew \/ FromIterWrite \/ FromIterClose \/ FromIterReturn

----------------------------------------------------------------------------
(***************************************************************************)
(* The specifications: one per part of the library.  Each starts the part  *)
(* it is about in its constructed states and holds the other parts idle.   *)
(***************************************************************************)
\* Any two timestamps, before any comparison.
InitTimestamp ==
    /\ lhs \in TimestampFormat
    /\ rhs \in TimestampFormat
    /\ ts_call = [op |-> "none"]
    /\ obj = StringOSMObj_Node(StringNode(1))
    /\ call = [op |-> "none"]
    /\ tag_log = <<>>
    /\ type_call = [op |-> "none"]
    /\ char_call = [op |-> "none"]
    /\ pc = "idle"
    /\ iter = <<>>
    /\ items = <<>>
    /\ writer = None
    /\ trace = <<>>
    /\ returned = None

\* A timestamp of either form, its epoch anywhere in the 64-bit range,
\* before any conversion.
InitConv ==
    /\ lhs \in {ISOString(s) : s \in IsoStrings}
                \cup {EpochNunber(t) : t \in WideEpochs}
    /\ rhs = ISOString(epoch_to_iso(0))
    /\ ts_call = [op |-> "none"]
    /\ obj = StringOSMObj_Node(StringNode(1))
    /\ call = [op |-> "none"]
    /\ tag_log = <<>>
    /\ type_call = [op |-> "none"]
    /\ char_call = [op |-> "none"]
    /\ pc = "idle"
    /\ iter = <<>>
    /\ items = <<>>
    /\ writer = None
    /\ trace = <<>>
    /\ returned = None

\* A freshly built entity of any kind.
InitObj ==
    /\ lhs = EpochNunber(0)
    /\ rhs = EpochNunber(0)
    /\ ts_call = [op |-> "none"]
    /\ obj \in NewObjs
    /\ call = [op |-> "none"]
    /\ tag_log = <<>>
    /\ type_call = [op |-> "none"]
    /\ char_call = [op |-> "none"]
    /\ pc = "idle"
    /\ iter = <<>>
    /\ items = <<>>
    /\ writer = None
    /\ trace = <<>>
    /\ returned = None

\* An entity of any kind as a decoder hands it over: fields, tags and
\* payload set or left as built, metadata not yet set.
InitStrip ==
    /\ lhs = EpochNunber(0)
    /\ rhs = EpochNunber(0)
    /\ ts_call = [op |-> "none"]
    /\ obj \in {Filled(o, f, t, p) :
                    o \in NewObjs, f \in BOOLEAN, t \in BOOLEAN, p \in BOOLEAN}
    /\ call = [op |-> "none"]
    /\ tag_log = <<>>
    /\ type_call = [op |-> "none"]
    /\ char_call = [op |-> "none"]
    /\ pc = "idle"
    /\ iter = <<>>
    /\ items = <<>>
    /\ writer = None
    /\ trace = <<>>
    /\ returned = None

\* No parser called yet.
InitType ==
    /\ lhs = EpochNunber(0)
    /\ rhs = EpochNunber(0)
    /\ ts_call = [op |-> "none"]
    /\ obj = StringOSMObj_Node(StringNode(1))
    /\ call = [op |-> "none"]
    /\ tag_log = <<>>
    /\ type_call = [op |-> "none"]
    /\ char_call = [op |-> "none"]
    /\ pc = "idle"
    /\ iter = <<>>
    /\ items = <<>>
    /\ writer = None
    /\ trace = <<>>
    /\ returned = None

\* from_iter is entered with an iterator over any items.
InitWriter ==
    /\ lhs = EpochNunber(0)
    /\ rhs = EpochNunber(0)
    /\ ts_call = [op |-> "none"]
    /\ obj = StringOSMObj_Node(StringNode(1))
    /\ call = [op |-> "none"]
    /\ tag_log = <<>>
    /\ type_call = [op |-> "none"]
    /\ char_call = [op |-> "none"]
    /\ pc = "new"
    /\ items \in SeqsUpTo(NewObjs, MaxItems)
    /\ iter = items
    /\ writer = None
    /\ trace = <<>>
    /\ returned = None

SpecTimestamp == InitTimestamp /\ [][TsNext]_vars

SpecConv == InitConv /\ [][ConvNext]_vars

SpecObj == InitObj /\ [][ObjNext]_vars

SpecStrip == InitStrip /\ [][StripNext]_vars

SpecFields == InitObj /\ [][FieldsNext]_vars

SpecTags == InitObj /\ [][TagsNext]_vars

SpecPayload == InitObj /\ [][PayloadNext]_vars

SpecType == InitType /\ [][TypeNext]_vars

SpecWriter == InitWriter /\ [][WriterNext]_vars

----------------------------------------------------------------------------
(***************************************************************************)
(* The properties.                                                         *)
(***************************************************************************)

\* C1 (as claimed): whatever the two forms, a == b returns true exactly when
\* a.to_epoch_number() == b.to_epoch_number().
C1_EqIsEpochEq ==
    ts_call.op = "eq" =>
        (ts_call.ret <=> (to_epoch_number(lhs) = to_epoch_number(rhs)))

\* C2 (as claimed): whatever the two forms, a.partial_cmp(b) is the ordering
\* of a.to_epoch_number() against b.to_epoch_number().
C2_PartialCmpIsEpochCmp ==
    ts_call.op = "partial_cmp" =>
        ts_call.ret = Some(IntCmp(to_epoch_number(lhs), to_epoch_number(rhs)))

DowncastKind(op) ==
    CASE op \in {"into_node", "as_node", "as_node_mut"} -> "Node"
      [] op \in {"into_way", "as_way", "as_way_mut"} -> "Way"
      [] op \in {"into_relation", "as_relation", "as_relation_mut"} ->
            "Relation"

DowncastOps ==
    {"into_node", "as_node", "as_node_mut", "into_way", "as_way",
     "as_way_mut", "into_relation", "as_relation", "as_relation_mut"}

\* C3: in every reachable state of a StringOSMObj each of the nine downcasts
\* returns Some (of the struct the wrapper holds) exactly when object_type()
\* is its kind and None otherwise, a downcast that was called returned just
\* that value, and exactly one of is_node, is_way, is_relation is true.
C3_Downcasts ==
    /\ is_some(into_node(obj)) <=> (object_type(obj) = "Node")
    /\ is_some(as_node(obj)) <=> (object_type(obj) = "Node")
    /\ is_some(as_node_mut(obj)) <=> (object_type(obj) = "Node")
    /\ is_some(into_way(obj)) <=> (object_type(obj) = "Way")
    /\ is_some(as_way(obj)) <=> (object_type(obj) = "Way")
    /\ is_some(as_way_mut(obj)) <=> (object_type(obj) = "Way")
    /\ is_some(into_relation(obj)) <=> (object_type(obj) = "Relation")
    /\ is_some(as_relation(obj)) <=> (object_type(obj) = "Relation")
    /\ is_some(as_relation_mut(obj)) <=> (object_type(obj) = "Relation")
    /\ \A d \in {into_node(obj), as_node(obj), as_node_mut(obj),
                 into_way(obj), as_way(obj), as_way_mut(obj),
                 into_relation(obj), as_relation(obj), as_relation_mut(obj)} :
            d \in {None, Some(Inner(obj))}
    /\ call.op \in DowncastOps =>
            call.ret = IF object_type(obj) = DowncastKind(call.op)
                          THEN Some(Inner(obj)) ELSE None
    /\ Cardinality({p \in {<<"n", is_node(obj)>>, <<"w", is_way(obj)>>,
                           <<"r", is_relation(obj)>>} : p[2]}) = 1

\* C3 witness: a mutable downcast to Way was called on a wrapper that holds a
\* Node whose uid has been set, and returned None.
C3_Witness ==
    /\ call.op = "as_way_mut"
    /\ call.ret = None
    /\ object_type(obj) = "Node"
    /\ is_some(StringOSMObj_uid(obj))

\* C6: after strip_metadata, called on the wrapper or on the struct inside
\* it, uid(), user() and changeset_id() are all None, read through the
\* wrapper and read from the struct.
C6_StripClearsAll ==
    call.op = "strip_metadata" =>
        /\ StringOSMObj_uid(obj) = None
        /\ StringOSMObj_user(obj) = None
        /\ StringOSMObj_changeset_id(obj) = None
        /\ OSMObjBase_uid(Inner(obj)) = None
        /\ OSMObjBase_user(Inner(obj)) = None
        /\ OSMObjBase_changeset_id(Inner(obj)) = None

\* C6 witness: strip_metadata was called on a StringWay that had a uid, a
\* user and a changeset id.
C6_Witness ==
    /\ call.op = "strip_metadata"
    /\ call.on = "StringWay"
    /\ \A i \in 1..3 : is_some(call.had[i])

\* What the calls logged in tag_log leave key k at: the value of the last
\* set_tag(k, v) when no unset_tag(k) follows it, None otherwise.
LastWrite(k) ==
    LET at == {i \in 1..Len(tag_log) : tag_log[i][2] = k}
    IN  IF at = {} THEN None
        ELSE LET last == CHOOSE i \in at : \A j \in at : j <= i
             IN  IF tag_log[last][1] = "set_tag"
                    THEN Some(tag_log[last][3]) ELSE None

\* C7: after any sequence of set_tag and unset_tag calls, tags() yields no
\* key twice, tag(k) is the last write to k (None when k was never set or
\* was unset since), has_tag agrees, and num_tags() counts the keys set;
\* read through the wrapper and read from the struct.
C7_TagsLastWriteWins ==
    /\ \A e1, e2 \in StringOSMObj_tags(obj) : e1[1] = e2[1] => e1 = e2
    /\ \A k \in Keys :
        /\ StringOSMObj_tag(obj, k) = LastWrite(k)
        /\ OSMObjBase_tag(Inner(obj), k) = LastWrite(k)
        /\ has_tag(obj, k) <=> is_some(LastWrite(k))
    /\ num_tags(obj) = Cardinality({k \in Keys : is_some(LastWrite(k))})
    /\ num_tags(Inner(obj)) = num_tags(obj)
    /\ untagged(obj) <=> (\A k \in Keys : LastWrite(k) = None)

\* C7 witness: a key was set, a second key was set, and the first key was
\* set again to another value.
C7_Witness ==
    /\ Len(tag_log) = 3
    /\ tag_log[1] = <<"set_tag", "name", "a">>
    /\ tag_log[2] = <<"set_tag", "highway", "a">>
    /\ tag_log[3] = <<"set_tag", "name", "b">>
    /\ StringOSMObj_tag(obj, "name") = Some("b")
    /\ num_tags(obj) = 2

\* C8: after set_nodes(L) the way's nodes() is L itself (length, order and
\* duplicates), num_nodes() is len(L), node(i) is L[i] below len(L) and
\* None from len(L) on.
C8_SetNodesReplaces ==
    call.op = "set_nodes" =>
        LET w == unwrap(as_way(obj))
            L == call.arg
        IN  /\ StringWay_nodes(w) = L
            /\ StringWay_num_nodes(w) = Len(L)
            /\ \A i \in 0..(MaxNodes + 1) :
                StringWay_node(w, i) =
                    IF i < Len(L) THEN Some(L[i + 1]) ELSE None

\* C8 witness: set_nodes was given a two-element list with a duplicate, on a
\* way that held a list with an element not in the new one.
C8_Witness ==
    /\ call.op = "set_nodes"
    /\ call.prev_len > 0
    /\ call.stale
    /\ Len(call.arg) = 2
    /\ call.arg[1] = call.arg[2]

\* C9: after set_members(M) the relation's members() yields the triples of
\* M, in M's order, each role as given (the empty role too), and nothing
\* else.
C9_SetMembersReplaces ==
    call.op = "set_members" =>
        LET r == unwrap(as_relation(obj))
            M == call.arg
            got == StringRelation_members(r)
        IN  /\ Len(got) = Len(M)
            /\ \A i \in 1..Len(M) :
                /\ got[i][1] = M[i][1]
                /\ got[i][2] = M[i][2]
                /\ got[i][3] = M[i][3]

\* C9 witness: set_members was given two members, the second with the empty
\* role, on a relation that held a member not in the new list.
C9_Witness ==
    /\ call.op = "set_members"
    /\ call.prev_len > 0
    /\ call.stale
    /\ Len(call.arg) = 2
    /\ call.arg[1][3] # ""
    /\ call.arg[2][3] = ""

IsWrite(c) == c[1] = "write_obj"

IsClose(c) == c[1] = "close"

\* C4 (as claimed): whenever from_iter ends, by returning or by panicking,
\* it has called close() exactly once.
C4_CloseExactlyOnce ==
    pc \in {"done", "panicked"} => Len(SelectSeq(trace, IsClose)) = 1

\* C5: the write_obj calls of from_iter are made on the iterator's items in
\* the iterator's order, one call per item; close is called only once every
\* item has been written and nothing is called after it; and when from_iter
\* returns, every item has been written in order and the value returned is
\* the writer it constructed, closed once and no longer open.
C5_WriteOrderThenClose ==
    LET ws == SelectSeq(trace, IsWrite)
    IN  /\ Len(ws) <= Len(items)
        /\ \A i \in 1..Len(ws) : ws[i][2] = items[i]
        /\ \A i \in 1..Len(trace) :
            IsClose(trace[i]) => (i = Len(trace) /\ Len(ws) = Len(items))
        /\ pc = "done" =>
            /\ Len(ws) = Len(items)
            /\ Len(SelectSeq(trace, IsClose)) = 1
            /\ is_some(returned)
            /\ returned = writer
            /\ unwrap(returned).id = OSMWriter_new.id
            /\ unwrap(returned).written = items
            /\ unwrap(returned).closes = 1
            /\ ~is_open(unwrap(returned))

\* C5 witness: from_iter has returned after an iterator of two different
\* items.
C5_Witness ==
    /\ pc = "done"
    /\ Len(items) = 2
    /\ items[1] # items[2]
    /\ Len(trace) = 4

Codes == {Debug_fmt(t) : t \in OSMObjectType}

Names == {Display_fmt(t) : t \in OSMObjectType}

\* What C10 says of the round trips and of TryFrom<char>: the code and the
\* name of every kind parse back to it, and try_from rejects every char but
\* n, w, r.
C10_RoundTrips ==
    /\ type_call.op = "from_str" =>
        \A t \in OSMObjectType :
            type_call.arg \in {Debug_fmt(t), Display_fmt(t)} =>
                type_call.ret = Ok(t)
    /\ char_call.op = "try_from" =>
        /\ \A t \in OSMObjectType :
            char_call.arg = Debug_fmt(t) => char_call.ret = Ok(t)
        /\ char_call.arg \notin {"n", "w", "r"} => ~char_call.ret.ok

\* C10 (as claimed): the round trips, and from_str rejects every string
\* that is neither a kind's code nor its full-word name.
C10_AsClaimed ==
    /\ C10_RoundTrips
    /\ type_call.op = "from_str" =>
        (type_call.arg \notin Codes \cup Names => ~type_call.ret.ok)

\* C10 (amended): the round trips; from_str also takes "rel" for Relation,
\* and rejects every string that is neither a code, a full-word name nor
\* "rel".
C10_Amended ==
    /\ C10_RoundTrips
    /\ type_call.op = "from_str" =>
        /\ type_call.arg = "rel" => type_call.ret = Ok("Relation")
        /\ type_call.arg \notin Codes \cup Names \cup {"rel"} =>
                ~type_call.ret.ok

\* C10 witness: from_str took "rel" and try_from rejected 'x'.
C10_Witness ==
    /\ type_call.op = "from_str"
    /\ type_call.arg = "rel"
    /\ type_call.ret = Ok("Relation")
    /\ char_call.op = "try_from"
    /\ char_call.arg = "x"
    /\ ~char_call.ret.ok

\* C11 (as claimed): for every 64-bit epoch t, converting EpochNunber(t) with
\* to_iso_string and the string back with to_epoch_number returns t.
C11_RoundTripLossless ==
    (lhs.form = "EpochNunber" /\ ts_call.op = "to_epoch_number") =>
        ts_call.ret = lhs.t

\* C12 (as claimed): == on TimestampFormat is an equivalence relation over
\* the values of both forms: a == a, a == b gives what b == a gives, and
\* a == b with b == c implies a == c.
C12_EqIsEquivalence ==
    ts_call.op = "eq" =>
        /\ eq(lhs, lhs)
        /\ ts_call.ret = eq(rhs, lhs)
        /\ \A c \in TimestampFormat :
                (ts_call.ret /\ eq(rhs, c)) => eq(lhs, c)

\* C13 (as claimed): the derived cmp and the hand-written partial_cmp agree,
\* a.partial_cmp(b) == Some(a.cmp(b)), and a.cmp(b) is Equal exactly when
\* a == b.
C13_CmpAgreesWithPartialCmp ==
    ts_call.op = "cmp" =>
        /\ partial_cmp(lhs, rhs) = Some(ts_call.ret)
        /\ (ts_call.ret = "Equal") <=> eq(lhs, rhs)

\* C14: strip_metadata on a StringOSMObj leaves object_type(), id, version,
\* deleted, timestamp, the tag mapping and the kind-specific payload as they
\* were before the call, and a second strip_metadata changes nothing.
C14_StripFrame ==
    (call.op = "strip_metadata" /\ call.on = "StringOSMObj") =>
        /\ object_type(obj) = object_type(call.pre)
        /\ StringOSMObj_id(obj) = StringOSMObj_id(call.pre)
        /\ StringOSMObj_version(obj) = StringOSMObj_version(call.pre)
        /\ StringOSMObj_deleted(obj) = StringOSMObj_deleted(call.pre)
        /\ StringOSMObj_timestamp(obj) = StringOSMObj_timestamp(call.pre)
        /\ StringOSMObj_tags(obj) = StringOSMObj_tags(call.pre)
        /\ Payload(obj) = Payload(call.pre)
        /\ strip_metadata(obj) = obj

\* C14 witness: strip_metadata was called on a wrapper whose uid, user and
\* changeset id were all set, and which has a version, a timestamp, the
\* deleted flag, two tags and a payload (a position, or a list that is not
\* empty).
C14_Witness ==
    /\ call.op = "strip_metadata"
    /\ call.on = "StringOSMObj"
    /\ \A i \in 1..3 : is_some(call.had[i])
    /\ obj # call.pre
    /\ is_some(StringOSMObj_version(obj))
    /\ is_some(StringOSMObj_timestamp(obj))
    /\ StringOSMObj_deleted(obj)
    /\ num_tags(obj) = 2
    /\ Payload(obj) # <<>>

====
